---- MODULE Spec2Model ----
(***************************************************************************)
(* A model of the grading library of csci104/curricula:                    *)
(*   - grade/library/valgrind.py : the memory-analysis adapter             *)
(*   - tests/correctness/tests.py: the check, build and test tasks         *)
(*   - curricula/grade/plugin.py, curricula/grade/__init__.py : the two    *)
(*     entry points that build a Context and run graders                   *)
(*   - curricula/build/tools/generate.py : the interactive generation of   *)
(*     a problem inside an assignment                                      *)
(*                                                                         *)
(* Conventions.                                                            *)
(*   Optional[T]   is a sequence of length 0 (None) or 1 (the value).      *)
(*   str           is a sequence of tokens: a token is one character that  *)
(*                 parsing looks at (a digit, a sign, "x", " ", "\n") or a *)
(*                 word standing for a run of other characters.            *)
(*   dict          is a function whose DOMAIN is the set of keys.          *)
(*   a call result is [exc |-> name of the exception raised, or "",        *)
(*                     val |-> <<value returned>>, or <<>> when raised].   *)
(***************************************************************************)
EXTENDS Integers, Sequences, FiniteSets, TLC

VARIABLES
    \* ---- valgrind.run(): one invocation after another over the fixed path
    vpc,        \* position inside run(): "idle", "check", "loop", "returned", "raised"
    xmlFile,    \* Optional[document] stored at VALGRIND_XML_FILE
    runtime,    \* Optional[Runtime] captured by process.run in this invocation
    foundFile,  \* the value of os.path.exists(VALGRIND_XML_FILE) at line 83
    errors,     \* the local list `errors` of run()
    child,      \* index of the next child of the root in the loop of line 87
    outcome,    \* Optional[call result of this invocation of run()]
    wrote,      \* Optional[document] the tool execution of this invocation wrote
    \* ---- ValgrindError.load applied to one element
    element,    \* the <error> element handed to ValgrindError.load
    loaded,     \* Optional[call result of ValgrindError.load(element)]
    \* ---- ValgrindReport.memory_lost applied to one report
    report,     \* the ValgrindReport memory_lost is called on
    lost,       \* Optional[call result of report.memory_lost()]
    \* ---- one test task of tests.py applied to the Runtime of its process
    task,       \* the name of the test task
    executed,   \* the Runtime that program.execute returns to it
    result,     \* Optional[the Result the task returns]
    \* ---- Grader.run over the tasks of tests.py, once in each mode
    files,      \* names of the files in the submission (context.target)
    gxx,        \* how g++ ends on the submission: "ok", "error", "timeout"
    program,    \* the compiled program: argument -> Runtime of its execution
    buildDir,   \* Optional[set of file names]: the directory root/build
    mode,       \* the mode of the current run
    gpc,        \* "idle", "check", "build", "compile", "test"
    notes,      \* entries check tasks added to the Report
    built,      \* Optional[call result of the build task "program"]
    pending,    \* indices of the test tasks that have not completed
    completed,  \* <<index, Result>> of the test tasks, in completion order
    finals,     \* mode -> Optional[the Result sequence the run returned]
    \* ---- the entry points plugin.single and grade.run
    entry,      \* "single" or "run"
    epc,        \* "start", "run", "write", "loop", "done"
    dicts,      \* the dict objects: "args" of single, "options" of run
    context,    \* Optional[Context]: the Context built last
    problems,   \* assignment.problems: sequence of [short, automated]
    problem,    \* index of the next problem in the loop of line 32
    graded,     \* <<index of problem, Result sequence>> of each grader run
    reports,    \* the AssignmentReport of run(), the report of single
    written,    \* Optional[what single wrote to the report file]
    \* ---- generate_problem_interactive, one call
    gnpc,       \* "idle", "problem", "load", "weight", "write", "done",
                \* "cancelled", "raised"
    strict,     \* whether validate.PROBLEM_SCHEMA rejects an empty topic
    disk,       \* the assignment file, the problem directory, problem.json
    before,     \* disk as it was when the call started
    problem_json,    \* Optional[the local problem_json]
    assignment_json, \* Optional[the local assignment_json]
    weight      \* Optional[the local weight: the last answer accepted]

valgrindVars == <<vpc, xmlFile, runtime, foundFile, errors, child, outcome, wrote>>
loadVars == <<element, loaded>>
lostVars == <<report, lost>>
taskVars == <<task, executed, result>>
graderVars ==
    <<files, gxx, program, buildDir, mode, gpc, notes, built, pending, completed, finals>>
entryVars == <<entry, epc, dicts, context, problems, problem, graded, reports, written>>
generateVars == <<gnpc, strict, disk, before, problem_json, assignment_json, weight>>
vars == <<valgrindVars, loadVars, lostVars, taskVars, graderVars, entryVars, generateVars>>

-----------------------------------------------------------------------------
(* Bounds of the model *)

\* the most <error> entries in a report document or an error list
MaxErrors == 2
\* the most tokens on the standard output of a tested process
MaxStdout == 2
\* the most tokens on the standard error of a tested process
MaxStderr == 3
\* the most problems of an assignment
MaxProblems == 3
\* the most answers to the weight prompt that one call appends
MaxWeights == 3

-----------------------------------------------------------------------------
(* Python values *)

None == <<>>
Some(v) == <<v>>

Return(v) == [exc |-> "", val |-> <<v>>]
Raise(e) == [exc |-> e, val |-> <<>>]

EmptyDict == [k \in {} |-> <<>>]
DictSet(d, k, v) == [x \in (DOMAIN d) \cup {k} |-> IF x = k THEN v ELSE d[x]]

RECURSIVE SumOver(_, _)
SumOver(f, S) ==
    IF S = {} THEN 0
    ELSE LET x == CHOOSE y \in S : TRUE IN f[x] + SumOver(f, S \ {x})

-----------------------------------------------------------------------------
(* int(text) and int(text, 16) *)

DecDigits == {"0", "1", "2", "3", "4", "5", "6", "7", "8", "9"}
HexDigits == DecDigits \cup {"a", "b", "c", "d", "e", "f"}
DigitVal ==
    [c \in HexDigits |->
        CASE c = "0" -> 0 [] c = "1" -> 1 [] c = "2" -> 2 [] c = "3" -> 3
          [] c = "4" -> 4 [] c = "5" -> 5 [] c = "6" -> 6 [] c = "7" -> 7
          [] c = "8" -> 8 [] c = "9" -> 9 [] c = "a" -> 10 [] c = "b" -> 11
          [] c = "c" -> 12 [] c = "d" -> 13 [] c = "e" -> 14 [] c = "f" -> 15]

Whitespace == {" ", "\n"}

RECURSIVE LStrip(_)
LStrip(s) == IF s # <<>> /\ Head(s) \in Whitespace THEN LStrip(Tail(s)) ELSE s

RECURSIVE RStrip(_)
RStrip(s) ==
    IF s # <<>> /\ s[Len(s)] \in Whitespace THEN RStrip(SubSeq(s, 1, Len(s) - 1)) ELSE s

\* str.strip()
Strip(s) == RStrip(LStrip(s))

RECURSIVE DigitsValue(_, _, _)
DigitsValue(s, base, acc) ==
    IF s = <<>> THEN acc
    ELSE DigitsValue(Tail(s), base, acc * base + DigitVal[Head(s)])

\* int(s, base): surrounding whitespace, an optional sign, for base 16 an
\* optional 0x prefix, then at least one digit of the base; else ValueError
int(s, base) ==
    LET t == Strip(s)
        neg == t # <<>> /\ Head(t) = "-"
        u == IF t # <<>> /\ Head(t) \in {"+", "-"} THEN Tail(t) ELSE t
        w == IF base = 16 /\ Len(u) >= 2 /\ u[1] = "0" /\ u[2] = "x"
             THEN SubSeq(u, 3, Len(u)) ELSE u
        digits == IF base = 16 THEN HexDigits ELSE DecDigits
    IN  IF w = <<>> \/ \E i \in 1..Len(w) : w[i] \notin digits
        THEN Raise("ValueError")
        ELSE LET v == DigitsValue(w, base, 0) IN Return(IF neg THEN 0 - v ELSE v)

-----------------------------------------------------------------------------
(* xml.etree.ElementTree.Element: [tag, text, children] *)

Elem(tag, text, children) == [tag |-> tag, text |-> text, children |-> children]

\* Element.find(tag): the first child with that tag, or None
Find(e, tag) ==
    LET hits == {i \in 1..Len(e.children) : e.children[i].tag = tag}
    IN  IF hits = {} THEN None
        ELSE Some(e.children[CHOOSE i \in hits : \A j \in hits : i <= j])

\* Element.__bool__: an element is true when it has children
ElementBool(e) == Len(e.children) # 0

\* the truth value of an Optional[Element]
Truthy(o) == o # None /\ ElementBool(o[1])

\* a or b
Or(a, b) == IF Truthy(a) THEN a ELSE b

-----------------------------------------------------------------------------
(* grade/library/valgrind.py *)

LeakKindsWithoutPossiblyLost == {<<"Leak_DefinitelyLost">>, <<"Leak_IndirectlyLost">>}

\* the tuple of kinds tested at line 73
LeakKinds ==
    {<<"Leak_DefinitelyLost">>, <<"Leak_IndirectlyLost">>, <<"Leak_PossiblyLost">>}

\* the loop of ValgrindWhat.load over the children of an xwhat element
RECURSIVE WhatLoop(_, _, _)
WhatLoop(children, text, fields) ==
    IF children = <<>> THEN [text |-> text, fields |-> fields]
    ELSE LET c == Head(children)
         IN  IF c.tag = "tag"
             THEN WhatLoop(Tail(children), c.text, fields)
             ELSE WhatLoop(Tail(children), text, DictSet(fields, c.tag, c.text))

\* ValgrindWhat.load(element): Optional[ValgrindWhat]
ValgrindWhat_load(o) ==
    IF o = None THEN None
    ELSE IF o[1].tag = "what"
         THEN Some([text |-> o[1].text, fields |-> EmptyDict])
         ELSE Some(WhatLoop(o[1].children, <<>>, EmptyDict))

\* the argument of ValgrindWhat.load at line 56
WhatOrXwhat(e) == Or(Find(e, "what"), Find(e, "xwhat"))

\* ValgrindError.load(element): a call result holding a ValgrindError
ValgrindError_load(e) ==
    LET u == Find(e, "unique")
        t == Find(e, "tid")
        k == Find(e, "kind")
    IN  IF u = None THEN Raise("AttributeError")
        ELSE IF int(u[1].text, 16).exc # "" THEN Raise("ValueError")
        ELSE IF t = None THEN Raise("AttributeError")
        ELSE IF int(t[1].text, 10).exc # "" THEN Raise("ValueError")
        ELSE IF k = None THEN Raise("AttributeError")
        ELSE Return([unique |-> int(u[1].text, 16).val[1],
                     tid |-> int(t[1].text, 10).val[1],
                     kind |-> k[1].text,
                     what |-> ValgrindWhat_load(WhatOrXwhat(e))])

\* the loop of ValgrindReport.memory_lost over a list of errors
RECURSIVE LostLoop(_, _, _)
LostLoop(errs, leaked_bytes, leaked_blocks) ==
    IF errs = <<>> THEN Return(<<leaked_bytes, leaked_blocks>>)
    ELSE LET error == Head(errs)
         IN  IF error.kind \in LeakKinds
             THEN IF error.what = None THEN Raise("AttributeError")
                  ELSE LET fields == error.what[1].fields
                       IN  IF "leakedbytes" \notin DOMAIN fields THEN Raise("KeyError")
                           ELSE IF int(fields["leakedbytes"], 10).exc # ""
                                THEN Raise("ValueError")
                           ELSE IF "leakedblocks" \notin DOMAIN fields
                                THEN Raise("KeyError")
                           ELSE IF int(fields["leakedblocks"], 10).exc # ""
                                THEN Raise("ValueError")
                           ELSE LostLoop(Tail(errs),
                                    leaked_bytes + int(fields["leakedbytes"], 10).val[1],
                                    leaked_blocks + int(fields["leakedblocks"], 10).val[1])
             ELSE LostLoop(Tail(errs), leaked_bytes, leaked_blocks)

\* ValgrindReport.memory_lost(self): iterating a null error list is a TypeError
memory_lost(self) ==
    IF self.errors = None THEN Raise("TypeError")
    ELSE LostLoop(self.errors[1], 0, 0)

\* process.Runtime: code is {} when undefined (timeout), else {exit code}
Runtime(stdout, stderr, code, timeout) ==
    [stdout |-> stdout, stderr |-> stderr, code |-> code, timeout |-> timeout]

ValgrindReport(rt, errs) == [runtime |-> rt, errors |-> errs]

-----------------------------------------------------------------------------
(* Report documents and elements the tool can write *)

Leaf(tag, text) == Elem(tag, text, <<>>)

\* the kinds of error the tool reports (those used here)
Kinds ==
    {<<"Leak_DefinitelyLost">>, <<"Leak_IndirectlyLost">>, <<"Leak_PossiblyLost">>,
     <<"InvalidRead">>}

Uniques ==
    {None, Some(Leaf("unique", <<"0", "x", "1", "f">>)), Some(Leaf("unique", <<"z">>))}

Whats ==
    {None,
     Some(Leaf("what", <<"Invalid read of size 4">>)),
     Some(Elem("what", <<"Invalid read of size 4">>, <<Leaf("b", <<"x">>)>>))}

XwhatTagged ==
    Elem("xwhat", <<>>, <<Leaf("tag", <<"leak">>),
                          Leaf("leakedbytes", <<"1", "2", "8">>),
                          Leaf("leakedblocks", <<"2">>)>>)
XwhatText ==
    Elem("xwhat", <<>>, <<Leaf("text", <<"7 bytes in 1 blocks are lost">>),
                          Leaf("leakedbytes", <<"7">>),
                          Leaf("leakedblocks", <<"1">>)>>)
XwhatRepeated ==
    Elem("xwhat", <<>>, <<Leaf("leakedbytes", <<"7">>),
                          Leaf("tag", <<"first">>),
                          Leaf("leakedbytes", <<"1", "2", "8">>),
                          Leaf("tag", <<"second">>)>>)
Xwhats ==
    {None, Some(Leaf("xwhat", <<>>)), Some(XwhatTagged), Some(XwhatText),
     Some(XwhatRepeated)}

\* an <error> element with the given optional parts
ErrorElem(unique, kind, what, xwhat) ==
    Elem("error", <<>>,
         unique \o <<Leaf("tid", <<"1">>), Leaf("kind", kind)>> \o what \o xwhat)

ErrorElements ==
    {ErrorElem(u, k, w, x) : u \in Uniques, k \in Kinds, w \in Whats, x \in Xwhats}

\* sequences over S of length at most n
BoundedSeq(S, n) == UNION {[1..k -> S] : k \in 0..n}

\* what process.run can report of the analysed process: normal exits, a
\* signal (negative code), a timeout (code undefined)
RuntimeOutcomes ==
    {Runtime(<<>>, <<>>, {0}, FALSE), Runtime(<<>>, <<>>, {1}, FALSE),
     Runtime(<<>>, <<>>, {0 - 11}, FALSE), Runtime(<<>>, <<>>, {}, TRUE)}

\* children of the root element of a report
RootChildren ==
    {Leaf("status", <<"RUNNING">>),
     ErrorElem(Some(Leaf("unique", <<"0", "x", "1", "f">>)), <<"Leak_DefinitelyLost">>,
               None, Some(XwhatTagged)),
     ErrorElem(Some(Leaf("unique", <<"0", "x", "2">>)), <<"InvalidRead">>,
               Some(Leaf("what", <<"Invalid read of size 4">>)), None),
     ErrorElem(Some(Leaf("unique", <<"0", "x", "3">>)), <<"Leak_PossiblyLost">>,
               None, None),
     ErrorElem(None, <<"InvalidRead">>, None, None)}

\* a report file: well-formed XML with a root, or text the parser rejects
\* (a report cut short when the tool is killed)
Document(wellformed, root) == [wellformed |-> wellformed, root |-> root]
Documents ==
    {Document(FALSE, <<>>)}
        \cup {Document(TRUE, r) : r \in BoundedSeq(RootChildren, MaxErrors)}

-----------------------------------------------------------------------------
(* valgrind.run, lines 79-92 *)

run_absent_empty_list(rt) == ValgrindReport(rt, Some(<<>>))

\* line 92: the report returned when the file does not exist
run_absent(rt) == ValgrindReport(rt, None)

\* line 91: the report returned after the file was parsed
run_parsed(rt, errs) == ValgrindReport(rt, Some(errs))

ValgrindIdle ==
    /\ vpc = "idle"
    /\ runtime = None
    /\ foundFile = FALSE
    /\ errors = <<>>
    /\ child = 1
    /\ outcome = None
    /\ wrote = None

\* line 82: process.run runs the tool, which may write a report to the path
VgExecute ==
    /\ vpc = "idle"
    /\ \E rt \in RuntimeOutcomes, w \in {None} \cup {Some(d) : d \in Documents} :
        /\ runtime' = Some(rt)
        /\ wrote' = w
        /\ xmlFile' = IF w = None THEN xmlFile ELSE w
    /\ vpc' = "check"
    /\ UNCHANGED <<foundFile, errors, child, outcome>>

\* lines 83-86 and 92: os.path.exists, then open and parse, or return
VgCheck ==
    /\ vpc = "check"
    /\ foundFile' = (xmlFile # None)
    /\ IF xmlFile = None
       THEN /\ outcome' = Some(Return(run_absent(runtime[1])))
            /\ vpc' = "returned"
            /\ UNCHANGED <<errors, child>>
       ELSE /\ errors' = <<>>
            /\ child' = 1
            /\ IF xmlFile[1].wellformed
               THEN vpc' = "loop" /\ UNCHANGED outcome
               ELSE vpc' = "raised" /\ outcome' = Some(Raise("ParseError"))
    /\ UNCHANGED <<xmlFile, runtime, wrote>>

\* lines 87-89: one iteration of the loop over the children of the root
VgLoop ==
    /\ vpc = "loop"
    /\ child <= Len(xmlFile[1].root)
    /\ LET c == xmlFile[1].root[child]
           r == ValgrindError_load(c)
       IN  IF c.tag # "error"
           THEN UNCHANGED <<errors, outcome, vpc>>
           ELSE IF r.exc # ""
                THEN vpc' = "raised" /\ outcome' = Some(r) /\ UNCHANGED errors
                ELSE errors' = Append(errors, r.val[1]) /\ UNCHANGED <<outcome, vpc>>
    /\ child' = child + 1
    /\ UNCHANGED <<xmlFile, runtime, foundFile, wrote>>

\* lines 90-91: os.remove, then return the report
VgFinish ==
    /\ vpc = "loop"
    /\ child > Len(xmlFile[1].root)
    /\ xmlFile' = None
    /\ outcome' = Some(Return(run_parsed(runtime[1], errors)))
    /\ vpc' = "returned"
    /\ UNCHANGED <<runtime, foundFile, errors, child, wrote>>

\* the caller goes on to the next invocation; the file system stays as it is
VgAgain ==
    /\ vpc \in {"returned", "raised"}
    /\ vpc' = "idle"
    /\ runtime' = None
    /\ foundFile' = FALSE
    /\ errors' = <<>>
    /\ child' = 1
    /\ outcome' = None
    /\ wrote' = None
    /\ UNCHANGED xmlFile

-----------------------------------------------------------------------------
(* ValgrindError.load and ValgrindReport.memory_lost applied to inputs *)

LoadIdle == element = Elem("error", <<>>, <<>>) /\ loaded = None

Load ==
    /\ loaded = None
    /\ loaded' = Some(ValgrindError_load(element))
    /\ UNCHANGED element

\* the ValgrindWhat values a ValgrindError can hold
LostWhats ==
    {None,
     Some([text |-> <<"Invalid read of size 4">>, fields |-> EmptyDict]),
     Some(WhatLoop(XwhatTagged.children, <<>>, EmptyDict)),
     Some(WhatLoop(XwhatText.children, <<>>, EmptyDict)),
     Some(WhatLoop(XwhatRepeated.children, <<>>, EmptyDict))}

LostErrors ==
    {[unique |-> 31, tid |-> 1, kind |-> k, what |-> w] : k \in Kinds, w \in LostWhats}

LostReports ==
    {ValgrindReport(Runtime(<<>>, <<>>, {0}, FALSE), es) :
        es \in {None} \cup {Some(l) : l \in BoundedSeq(LostErrors, MaxErrors)}}

LostIdle == report = ValgrindReport(Runtime(<<>>, <<>>, {0}, FALSE), None) /\ lost = None

MemoryLost ==
    /\ lost = None
    /\ lost' = Some(memory_lost(report))
    /\ UNCHANGED report

\* the caller of run() asks the report that run() returned for memory_lost()
VgMemoryLost ==
    /\ vpc = "returned"
    /\ lost = None
    /\ report' = outcome[1].val[1]
    /\ lost' = Some(memory_lost(outcome[1].val[1]))
    /\ UNCHANGED valgrindVars

-----------------------------------------------------------------------------
(* tests/correctness/tests.py: the test tasks *)

\* str.split("\n")
RECURSIVE Split(_)
Split(s) ==
    LET nl == {i \in 1..Len(s) : s[i] = "\n"}
    IN  IF nl = {} THEN <<s>>
        ELSE LET i == CHOOSE k \in nl : \A j \in nl : k <= j
             IN  <<SubSeq(s, 1, i - 1)>> \o Split(SubSeq(s, i + 1, Len(s)))

\* filter(None, lines): the lines that are not empty
FilterNone(lines) == SelectSeq(lines, LAMBDA l : l # <<>>)

\* Logger: log[depth](*args) appends one line at that indentation, log(*args)
\* at depth 0; args are texts, and at most one exit code
Line(depth, args, code) == [depth |-> depth, args |-> args, code |-> code]

\* the lines the loops at 72-73, 88-89 and 110-111 append
RECURSIVE LogLines(_, _)
LogLines(depth, lines) ==
    IF lines = <<>> THEN <<>>
    ELSE <<Line(depth, <<Head(lines)>>, None)>> \o LogLines(depth, Tail(lines))

\* CorrectnessResult(passing, runtime), with the lines logged by the task
CorrectnessResult(passing, rt, log) == [passing |-> passing, runtime |-> rt, log |-> log]

Passing(rt) == Strip(rt.stdout) = <<"pass">>

\* lines 44-50
test_pass(rt) == CorrectnessResult(Passing(rt), rt, <<>>)

\* lines 53-62
test_fail(rt) ==
    CorrectnessResult(Passing(rt), rt,
        IF ~Passing(rt)
        THEN <<Line(2, <<<<"expected pass, got">>, Strip(rt.stdout)>>, None)>>
        ELSE <<>>)

\* lines 65-78
test_error(rt) ==
    IF rt.code # {0}
    THEN CorrectnessResult(FALSE, rt,
            <<Line(2, <<<<"received return code">>>>, Some(rt.code))>>
                \o LogLines(4, FilterNone(Split(rt.stderr))))
    ELSE CorrectnessResult(Passing(rt), rt,
            <<Line(2, <<<<"expected pass, got fail">>>>, None)>>)

test_fault_note_first(rt) ==
    IF rt.code # {0}
    THEN CorrectnessResult(FALSE, rt,
            <<Line(2, <<<<"received return code">>>>, Some(rt.code))>>
                \o (IF rt.code = {0 - 11}
                    THEN <<Line(4, <<<<"segmentation fault">>>>, None)>> ELSE <<>>)
                \o LogLines(4, FilterNone(Split(rt.stderr))))
    ELSE CorrectnessResult(Passing(rt), rt,
            <<Line(0, <<<<"expected pass, got fail">>>>, None)>>)

\* lines 81-96
test_fault(rt) ==
    IF rt.code # {0}
    THEN CorrectnessResult(FALSE, rt,
            <<Line(2, <<<<"received return code">>>>, Some(rt.code))>>
                \o LogLines(4, FilterNone(Split(rt.stderr)))
                \o (IF rt.code = {0 - 11}
                    THEN <<Line(4, <<<<"segmentation fault">>>>, None)>> ELSE <<>>))
    ELSE CorrectnessResult(Passing(rt), rt,
            <<Line(0, <<<<"expected pass, got fail">>>>, None)>>)

\* lines 99-118
test_timeout(rt) ==
    IF rt.timeout THEN CorrectnessResult(FALSE, rt, <<>>)
    ELSE IF rt.code # {0}
    THEN CorrectnessResult(FALSE, rt,
            <<Line(0, <<<<"received return code">>>>, Some(rt.code))>>
                \o LogLines(2, FilterNone(Split(rt.stderr)))
                \o (IF rt.code = {0 - 11}
                    THEN <<Line(2, <<<<"segmentation fault">>>>, None)>> ELSE <<>>))
    ELSE CorrectnessResult(Passing(rt), rt,
            <<Line(0, <<<<"expected pass, got fail">>>>, None)>>)

\* the test tasks in the order the decorators register them
TestTasks == <<"test_pass", "test_fail", "test_error", "test_fault", "test_timeout">>

\* the body of a test task applied to the Runtime of its process
TestBody(name, rt) ==
    CASE name = "test_pass" -> test_pass(rt)
      [] name = "test_fail" -> test_fail(rt)
      [] name = "test_error" -> test_error(rt)
      [] name = "test_fault" -> test_fault(rt)
      [] name = "test_timeout" -> test_timeout(rt)

\* what Executable.execute can return: any output; an exit status, a signal
\* (negative code), or a timeout, whose exit code is undefined
ExecuteRuntimes ==
    {Runtime(o, e, c, FALSE) :
        o \in BoundedSeq({"pass", "fail", "\n"}, MaxStdout),
        e \in BoundedSeq({"err", "\n"}, MaxStderr),
        c \in {{0}, {1}, {0 - 11}}}
    \cup
    {Runtime(o, e, {}, TRUE) :
        o \in BoundedSeq({"pass", "fail", "\n"}, MaxStdout),
        e \in BoundedSeq({"err", "\n"}, MaxStderr)}

TaskIdle ==
    /\ task = "test_pass"
    /\ executed = Runtime(<<>>, <<>>, {0}, FALSE)
    /\ result = None

RunTest(name) ==
    /\ task = name
    /\ result = None
    /\ result' = Some(TestBody(name, executed))
    /\ UNCHANGED <<task, executed>>

-----------------------------------------------------------------------------
(* tests/correctness/tests.py: the check and build tasks *)

\* lines 22-27: the note check_program adds to the report
check_program(target) ==
    IF "test.cpp" \notin target
    THEN <<[kind |-> "note", name |-> "check_program", text |-> "File test.cpp is missing"]>>
    ELSE <<>>

\* lines 17-19: shutil.rmtree fails on a path that does not exist; the value
\* returned is the directory as overwrite_directory leaves it
overwrite_directory(dir) ==
    IF dir = None THEN Raise("FileNotFoundError") ELSE Return(Some({}))

\* line 38: the Runtime of g++, which reads program.cpp of the submission
CompileRuntime(target, how) ==
    CASE "program.cpp" \in target /\ how = "ok" -> Runtime(<<>>, <<>>, {0}, FALSE)
      [] how = "timeout" -> Runtime(<<>>, <<>>, {}, TRUE)
      [] OTHER -> Runtime(<<>>, <<"err">>, {1}, FALSE)

build_program_ignoring_status(rt) == Return("build/program")

\* lines 39-41: an Executable for exit code 0, else an exception
build_program(rt) ==
    IF rt.code = {0} THEN Return("build/program") ELSE Raise("Exception")

\* the argument each test task passes to program.execute
TestArgs == <<"pass", "fail", "error", "fault", "hang">>

-----------------------------------------------------------------------------
(* Grader: registration order, phases, skipping and the two test modes *)

MODES == {"parallel", "linear"}

\* the entry of a Result sequence for one test task
Entry(name, status, res) == [name |-> name, status |-> status, result |-> res]

\* a test task whose Executable dependency did not resolve is skipped; one
\* that runs gets the Runtime of the program on its argument
RunTask(i, exe, prog) ==
    IF exe = None \/ exe[1].exc # ""
    THEN Entry(TestTasks[i], "skipped", None)
    ELSE LET res == TestBody(TestTasks[i], prog[TestArgs[i]])
         IN  Entry(TestTasks[i], IF res.passing THEN "passed" ELSE "failed", Some(res))

InCompletionOrder(done) == [k \in 1..Len(done) |-> done[k][2]]

\* the collected results, put back in registration order
InRegistrationOrder(done) ==
    [k \in 1..Len(done) |->
        LET j == CHOOSE x \in 1..Len(done) :
                    Cardinality({y \in 1..Len(done) : done[y][1] < done[x][1]}) = k - 1
        IN  done[j][2]]

GraderIdle ==
    /\ mode = "linear"
    /\ gpc = "idle"
    /\ notes = <<>>
    /\ built = None
    /\ pending = {}
    /\ completed = <<>>
    /\ finals = [m \in MODES |-> None]

\* Grader.run(context) is called in mode m
GrStart(m) ==
    /\ gpc = "idle"
    /\ finals[m] = None
    /\ mode' = m
    /\ gpc' = "check"
    /\ notes' = <<>>
    /\ built' = None
    /\ pending' = {}
    /\ completed' = <<>>
    /\ UNCHANGED <<files, gxx, program, buildDir, finals>>

\* the check phase: check_program, whose notes never block the build
GrCheck ==
    /\ gpc = "check"
    /\ notes' = check_program(files)
    /\ gpc' = "build"
    /\ UNCHANGED <<files, gxx, program, buildDir, mode, built, pending, completed, finals>>

\* the build task "program" up to line 36; an exception is caught and recorded
GrOverwrite ==
    /\ gpc = "build"
    /\ LET r == overwrite_directory(buildDir)
       IN  IF r.exc # ""
           THEN /\ built' = Some(r)
                /\ pending' = 1..Len(TestTasks)
                /\ gpc' = "test"
                /\ UNCHANGED buildDir
           ELSE /\ buildDir' = r.val[1]
                /\ gpc' = "compile"
                /\ UNCHANGED <<built, pending>>
    /\ UNCHANGED <<files, gxx, program, mode, notes, completed, finals>>

\* lines 37-41: g++ writes build/program when it succeeds
GrCompile ==
    /\ gpc = "compile"
    /\ LET rt == CompileRuntime(files, gxx)
       IN  /\ buildDir' = IF rt.code = {0} /\ ~rt.timeout
                          THEN Some(buildDir[1] \cup {"program"}) ELSE buildDir
           /\ built' = Some(build_program(rt))
    /\ pending' = 1..Len(TestTasks)
    /\ gpc' = "test"
    /\ UNCHANGED <<files, gxx, program, mode, notes, completed, finals>>

\* one test task completes: in linear mode the next in registration order,
\* in parallel mode any task that has not completed
GrTest(i) ==
    /\ gpc = "test"
    /\ i \in pending
    /\ mode = "linear" => \A j \in pending : i <= j
    /\ completed' = Append(completed, <<i, RunTask(i, built, program)>>)
    /\ pending' = pending \ {i}
    /\ UNCHANGED <<files, gxx, program, buildDir, mode, gpc, notes, built, finals>>

\* the run returns the Result sequence
GrCollect ==
    /\ gpc = "test"
    /\ pending = {}
    /\ finals' = [finals EXCEPT ![mode] = Some(InRegistrationOrder(completed))]
    /\ gpc' = "idle"
    /\ UNCHANGED <<files, gxx, program, buildDir, mode, notes, built, pending, completed>>

\* the Runtimes of the compiled program used in the runs of the Grader
ProgramRuntimes ==
    {Runtime(<<"pass", "\n">>, <<>>, {0}, FALSE),
     Runtime(<<"fail">>, <<"err", "\n">>, {0 - 11}, FALSE),
     Runtime(<<"pass">>, <<>>, {}, TRUE)}

-----------------------------------------------------------------------------
(* curricula/grade/plugin.py single and curricula/grade/__init__.py run *)

\* dict.pop(key), the key being present: the dict without that entry
DictPop(d, k) == [x \in (DOMAIN d) \ {k} |-> d[x]]

\* Context(target, options): the Context holds the dict object it is given
Context(target, options) == [target |-> target, options |-> options]

\* the options map a Context holds
Options(c) == dicts[c.options]

\* AssignmentReport: a mapping that keeps the order in which keys were added
AssignmentReport == [keys |-> <<>>, vals |-> EmptyDict]
ReportSet(r, k, v) ==
    [keys |-> IF k \in DOMAIN r.vals THEN r.keys ELSE Append(r.keys, k),
     vals |-> DictSet(r.vals, k, v)]

\* the Result sequences a grader run returns here
ResultSequences ==
    {<<Entry("test_pass", "passed", None)>>,
     <<Entry("test_pass", "failed", None), Entry("test_fail", "skipped", None)>>}

every_problem(p) == TRUE

\* line 32: the filter over assignment.problems
is_automated(p) == p.automated

\* assignments: problems with pairwise distinct short names
Shorts == {"hw1", "hw2", "hw3", "hw4"}
Assignments ==
    {ps \in BoundedSeq([short : Shorts, automated : BOOLEAN], MaxProblems) :
        \A i, j \in 1..Len(ps) : ps[i].short = ps[j].short => i = j}

\* the arguments of the command line of single, and the options of run
SingleArgs ==
    {[k \in {"target", "report"} \cup extra |->
        CASE k = "target" -> "submission" [] k = "report" -> "report.json"
          [] OTHER -> "linear"] : extra \in SUBSET {"mode"}}
RunOptions == {[k \in keys |-> "on"] : keys \in SUBSET {"mode", "verbose"}}

EntryIdle ==
    /\ entry = "single"
    /\ epc = "done"
    /\ dicts = [o \in {"args"} |-> EmptyDict]
    /\ context = None
    /\ problems = <<>>
    /\ problem = 1
    /\ graded = <<>>
    /\ reports = AssignmentReport
    /\ written = None

\* plugin.py line 16: args.pop("target"), then the Context is built on args
SingleContext ==
    /\ entry = "single"
    /\ epc = "start"
    /\ dicts' = [dicts EXCEPT !["args"] = DictPop(dicts["args"], "target")]
    /\ context' = Some(Context(dicts["args"]["target"], "args"))
    /\ epc' = "run"
    /\ UNCHANGED <<entry, problems, problem, graded, reports, written>>

\* line 17: grader.run(context) returns the report; it only reads the Context
SingleRun ==
    /\ entry = "single"
    /\ epc = "run"
    /\ \E r \in ResultSequences :
        /\ reports' = ReportSet(AssignmentReport, context[1].target, r)
        /\ graded' = Append(graded, <<1, r>>)
    /\ epc' = "write"
    /\ UNCHANGED <<entry, dicts, context, problems, problem, written>>

\* lines 18-19: args.pop("report") names the file the report is dumped to
SingleWrite ==
    /\ entry = "single"
    /\ epc = "write"
    /\ written' = Some([path |-> dicts["args"]["report"], report |-> reports])
    /\ dicts' = [dicts EXCEPT !["args"] = DictPop(dicts["args"], "report")]
    /\ epc' = "done"
    /\ UNCHANGED <<entry, context, problems, problem, graded, reports>>

\* __init__.py lines 32-38: one problem of assignment.problems; a problem the
\* filter keeps gets a Context on the options dict and its grader is run
RunProblem ==
    /\ entry = "run"
    /\ epc = "loop"
    /\ problem <= Len(problems)
    /\ IF is_automated(problems[problem])
       THEN /\ context' = Some(Context("submission", "options"))
            /\ \E r \in ResultSequences :
                /\ reports' = ReportSet(reports, problems[problem].short, r)
                /\ graded' = Append(graded, <<problem, r>>)
       ELSE UNCHANGED <<context, reports, graded>>
    /\ problem' = problem + 1
    /\ UNCHANGED <<entry, epc, dicts, problems, written>>

\* lines 40-43: the loop is over and run returns reports
RunReturn ==
    /\ entry = "run"
    /\ epc = "loop"
    /\ problem > Len(problems)
    /\ epc' = "done"
    /\ UNCHANGED <<entry, dicts, context, problems, problem, graded, reports, written>>

-----------------------------------------------------------------------------
(* curricula/build/tools/generate.py: generate_problem_interactive *)

\* the relative path of the problem being generated, and of one generated before
NewPath == "problems/sorting"
OldPath == "problems/hello"

\* str.split(",")
RECURSIVE SplitComma(_)
SplitComma(s) ==
    LET cs == {i \in 1..Len(s) : s[i] = ","}
    IN  IF cs = {} THEN <<s>>
        ELSE LET i == CHOOSE k \in cs : \A j \in cs : k <= j
             IN  <<SubSeq(s, 1, i - 1)>> \o SplitComma(SubSeq(s, i + 1, Len(s)))

\* str.lower() on the letters of the answers used here
Lower(s) ==
    [i \in 1..Len(s) |->
        CASE s[i] = "Y" -> "y" [] s[i] = "N" -> "n" [] s[i] = "O" -> "o"
          [] s[i] = "E" -> "e" [] s[i] = "S" -> "s" [] OTHER -> s[i]]

\* str.startswith("y")
StartsWithY(s) == s # <<>> /\ Head(s) = "y"

\* lines 42-46
validate_boolean(s) ==
    Lower(s) \in {<<"y">>, <<"n">>, <<"y", "e", "s">>, <<"n", "o">>}

\* the longest prefix of s made of decimal digits
RECURSIVE DigitPrefix(_)
DigitPrefix(s) ==
    IF s # <<>> /\ Head(s) \in DecDigits
    THEN <<Head(s)>> \o DigitPrefix(Tail(s))
    ELSE <<>>

\* float(s) for a text of digits with an optional fraction, in tenths (1.0 is
\* 10; the answers used here have at most one fractional digit); any other
\* text is a ValueError
float(s) ==
    LET whole == DigitPrefix(s)
        rest == SubSeq(s, Len(whole) + 1, Len(s))
        frac == IF rest = <<>> THEN <<>> ELSE Tail(rest)
    IN  IF whole = <<>> THEN Raise("ValueError")
        ELSE IF rest = <<>> THEN Return(10 * DigitsValue(whole, 10, 0))
        ELSE IF Head(rest) = "." /\ DigitPrefix(frac) = frac
             THEN Return(10 * DigitsValue(whole, 10, 0)
                            + (IF frac = <<>> THEN 0 ELSE DigitVal[Head(frac)]))
             ELSE Raise("ValueError")

\* lines 49-56: re.match anchors at the start only, so a text that starts
\* with a digit reaches float(string)
validate_weight(s) ==
    IF s = <<>> \/ Head(s) \notin DecDigits THEN Return(FALSE)
    ELSE IF float(s).exc # "" THEN float(s)
    ELSE Return(0 <= float(s).val[1] /\ float(s).val[1] <= 10)

\* answers to the prompts: those validated_input lets through
TitleAnswers == {<<"Sorting">>}
TopicAnswers == {<<>>, <<"trees">>, <<"trees", ",", " ", "graphs">>}
MinuteAnswers == {<<"1", "5">>}
BooleanAnswers == {s \in {<<"y">>, <<"Y", "e", "s">>, <<"N", "O">>, <<"maybe">>} :
                    validate_boolean(s)}
\* answers to the weight prompt, valid or not
WeightAnswers ==
    {<<"0">>, <<"0", ".", "5">>, <<"1">>, <<"2">>, <<"x">>, <<"0", ".", "5", "x">>}

\* lines 110-126: the problem definition built from the answers
ProblemJson(title, topics, minutes, automated, review, manual) ==
    [title |-> title,
     authors |-> <<[name |-> <<"Ada">>, email |-> <<"ada", "@", "usc", ".", "edu">>]>>,
     topics |-> [i \in 1..Len(SplitComma(topics)) |-> Strip(SplitComma(topics)[i])],
     grading |-> [minutes |-> int(minutes, 10).val[1],
                  automated |-> StartsWithY(Lower(automated)),
                  review |-> StartsWithY(Lower(review)),
                  manual |-> StartsWithY(Lower(manual))]]

\* jsonschema.validate(problem_json, validate.PROBLEM_SCHEMA): a strict
\* schema rejects a topic that is the empty string, a lax one accepts it
ProblemValid(doc, isStrict) ==
    ~isStrict \/ \A i \in 1..Len(doc.topics) : doc.topics[i] # <<>>

\* lines 149-152: the entry appended to assignment_json["problems"]
ProblemEntry(path, percentage) == [path |-> path, percentage |-> percentage]

\* jsonschema.validate(assignment_json, validate.ASSIGNMENT_SCHEMA): the
\* parts of the document that the file already held conform or do not; the
\* entries of "problems" conform when their percentage is within 0..1
AssignmentValid(doc) ==
    /\ doc.conforms
    /\ \A i \in 1..Len(doc.problems) :
        0 <= doc.problems[i].percentage /\ doc.problems[i].percentage <= 10

\* the assignment files and problem directories the call can find
AssignmentFiles ==
    {None} \cup
    {Some([conforms |-> c, problems |-> ps]) :
        c \in BOOLEAN, ps \in {<<>>, <<ProblemEntry(OldPath, 5)>>}}
OldProblemJson ==
    ProblemJson(<<"Draft">>, <<>>, <<"5">>, <<"n">>, <<"n">>, <<"y">>)
Disks ==
    {[assignment |-> a, directory |-> d[1], problem |-> d[2]] :
        a \in AssignmentFiles,
        d \in {<<FALSE, None>>, <<TRUE, None>>, <<TRUE, Some(OldProblemJson)>>}}

\* the entries of the in-memory problem list for the problem being generated
NewEntries(doc) == {i \in 1..Len(doc.problems) : doc.problems[i].path = NewPath}

GenerateIdle ==
    /\ gnpc = "idle"
    /\ strict = FALSE
    /\ disk = [assignment |-> None, directory |-> FALSE, problem |-> None]
    /\ before = disk
    /\ problem_json = None
    /\ assignment_json = None
    /\ weight = None

\* lines 108-137: one round of the prompts for the problem, then validation
GenProblem ==
    /\ gnpc = "problem"
    /\ \E title \in TitleAnswers, topics \in TopicAnswers, minutes \in MinuteAnswers,
          automated \in BooleanAnswers, review \in BooleanAnswers :
        LET doc == ProblemJson(title, topics, minutes, automated, review, <<"y">>)
        IN  /\ problem_json' = Some(doc)
            /\ gnpc' = IF ProblemValid(doc, strict) THEN "load" ELSE "problem"
    /\ UNCHANGED <<strict, disk, before, assignment_json, weight>>

\* lines 128-130: KeyboardInterrupt at one of the prompts for the problem
GenCancelProblem ==
    /\ gnpc = "problem"
    /\ gnpc' = "cancelled"
    /\ UNCHANGED <<strict, disk, before, problem_json, assignment_json, weight>>

\* lines 139-140: the assignment file is read
GenLoad ==
    /\ gnpc = "load"
    /\ IF disk.assignment = None
       THEN gnpc' = "raised" /\ UNCHANGED assignment_json
       ELSE gnpc' = "weight" /\ assignment_json' = disk.assignment
    /\ UNCHANGED <<strict, disk, before, problem_json, weight>>

\* lines 142-158: one answer to the weight prompt; an accepted answer is
\* appended to the list and the assignment is validated
GenWeight ==
    /\ gnpc = "weight"
    /\ Cardinality(NewEntries(assignment_json[1])) < MaxWeights
    /\ \E answer \in WeightAnswers :
        LET ok == validate_weight(answer)
            doc == [assignment_json[1] EXCEPT
                        !.problems = Append(@, ProblemEntry(NewPath, float(answer).val[1]))]
        IN  IF ok.exc # ""
            THEN gnpc' = "raised" /\ UNCHANGED <<assignment_json, weight>>
            ELSE IF ~ok.val[1]
                 THEN UNCHANGED <<gnpc, assignment_json, weight>>
                 ELSE /\ weight' = Some(answer)
                      /\ assignment_json' = Some(doc)
                      /\ gnpc' = IF AssignmentValid(doc) THEN "write" ELSE "weight"
    /\ UNCHANGED <<strict, disk, before, problem_json>>

\* lines 145-147: KeyboardInterrupt at the weight prompt
GenCancelWeight ==
    /\ gnpc = "weight"
    /\ gnpc' = "cancelled"
    /\ UNCHANGED <<strict, disk, before, problem_json, assignment_json, weight>>

\* lines 160-168: the assignment file, the problem directory, problem.json
GenWrite ==
    /\ gnpc = "write"
    /\ disk' = [assignment |-> assignment_json,
                directory |-> TRUE,
                problem |-> problem_json]
    /\ gnpc' = "done"
    /\ UNCHANGED <<strict, before, problem_json, assignment_json, weight>>

-----------------------------------------------------------------------------
(* Specifications *)

\* successive invocations of valgrind.run over the fixed report path
SubmissionIdle ==
    /\ files = {"program.cpp", "test.cpp"}
    /\ gxx = "ok"
    /\ program = [a \in {TestArgs[i] : i \in 1..Len(TestArgs)} |->
                    Runtime(<<"pass">>, <<>>, {0}, FALSE)]
    /\ buildDir = Some({})

Init ==
    /\ ValgrindIdle /\ xmlFile = None /\ LoadIdle /\ LostIdle /\ TaskIdle
    /\ GenerateIdle /\ GraderIdle /\ SubmissionIdle /\ EntryIdle
Next ==
    \/ VgExecute /\ UNCHANGED <<loadVars, lostVars, taskVars, graderVars, entryVars, generateVars>>
    \/ VgCheck /\ UNCHANGED <<loadVars, lostVars, taskVars, graderVars, entryVars, generateVars>>
    \/ VgLoop /\ UNCHANGED <<loadVars, lostVars, taskVars, graderVars, entryVars, generateVars>>
    \/ VgFinish /\ UNCHANGED <<loadVars, lostVars, taskVars, graderVars, entryVars, generateVars>>
    \/ VgMemoryLost /\ UNCHANGED <<loadVars, taskVars, graderVars, entryVars, generateVars>>
    \/ VgAgain /\ report' = ValgrindReport(Runtime(<<>>, <<>>, {0}, FALSE), None)
               /\ lost' = None
               /\ UNCHANGED <<loadVars, taskVars, graderVars, entryVars, generateVars>>
Spec == Init /\ [][Next]_vars

\* ValgrindError.load on every <error> element of ErrorElements
InitLoad ==
    /\ ValgrindIdle /\ xmlFile = None /\ LostIdle /\ TaskIdle
    /\ GenerateIdle /\ GraderIdle /\ SubmissionIdle /\ EntryIdle
    /\ element \in ErrorElements
    /\ loaded = None
NextLoad == Load /\ UNCHANGED <<valgrindVars, lostVars, taskVars, graderVars, entryVars, generateVars>>
SpecLoad == InitLoad /\ [][NextLoad]_vars

\* memory_lost on every report of LostReports
InitLost ==
    /\ ValgrindIdle /\ xmlFile = None /\ LoadIdle /\ TaskIdle
    /\ GenerateIdle /\ GraderIdle /\ SubmissionIdle /\ EntryIdle
    /\ report \in LostReports
    /\ lost = None
NextLost == MemoryLost /\ UNCHANGED <<valgrindVars, loadVars, taskVars, graderVars, entryVars, generateVars>>
SpecLost == InitLost /\ [][NextLost]_vars

\* every test task on every Runtime of ExecuteRuntimes
InitTests ==
    /\ ValgrindIdle /\ xmlFile = None /\ LoadIdle /\ LostIdle
    /\ GenerateIdle /\ GraderIdle /\ SubmissionIdle /\ EntryIdle
    /\ task \in {TestTasks[i] : i \in 1..Len(TestTasks)}
    /\ executed \in ExecuteRuntimes
    /\ result = None
NextTests ==
    \/ RunTest("test_pass") /\ UNCHANGED <<valgrindVars, loadVars, lostVars, graderVars, entryVars, generateVars>>
    \/ RunTest("test_fail") /\ UNCHANGED <<valgrindVars, loadVars, lostVars, graderVars, entryVars, generateVars>>
    \/ RunTest("test_error") /\ UNCHANGED <<valgrindVars, loadVars, lostVars, graderVars, entryVars, generateVars>>
    \/ RunTest("test_fault") /\ UNCHANGED <<valgrindVars, loadVars, lostVars, graderVars, entryVars, generateVars>>
    \/ RunTest("test_timeout") /\ UNCHANGED <<valgrindVars, loadVars, lostVars, graderVars, entryVars, generateVars>>
SpecTests == InitTests /\ [][NextTests]_vars

\* Grader.run on one submission, once in each mode, in either order
InitGrader ==
    /\ ValgrindIdle /\ xmlFile = None /\ LoadIdle /\ LostIdle /\ TaskIdle
    /\ GenerateIdle /\ GraderIdle /\ EntryIdle
    /\ files \in SUBSET {"program.cpp", "test.cpp"}
    /\ gxx \in {"ok", "error", "timeout"}
    /\ buildDir \in {None, Some({}), Some({"program"}), Some({"main.o"})}
    /\ program \in [{TestArgs[i] : i \in 1..Len(TestArgs)} -> ProgramRuntimes]
    /\ (buildDir = None \/ CompileRuntime(files, gxx).code # {0})
            => program = [a \in {TestArgs[i] : i \in 1..Len(TestArgs)} |->
                            Runtime(<<"pass", "\n">>, <<>>, {0}, FALSE)]
NextGrader ==
    \/ \E m \in MODES : GrStart(m) /\ UNCHANGED <<valgrindVars, loadVars, lostVars, taskVars, entryVars, generateVars>>
    \/ GrCheck /\ UNCHANGED <<valgrindVars, loadVars, lostVars, taskVars, entryVars, generateVars>>
    \/ GrOverwrite /\ UNCHANGED <<valgrindVars, loadVars, lostVars, taskVars, entryVars, generateVars>>
    \/ GrCompile /\ UNCHANGED <<valgrindVars, loadVars, lostVars, taskVars, entryVars, generateVars>>
    \/ \E i \in 1..Len(TestTasks) :
            GrTest(i) /\ UNCHANGED <<valgrindVars, loadVars, lostVars, taskVars, entryVars, generateVars>>
    \/ GrCollect /\ UNCHANGED <<valgrindVars, loadVars, lostVars, taskVars, entryVars, generateVars>>
SpecGrader == InitGrader /\ [][NextGrader]_vars

\* one call of plugin.single or of grade.run
InitEntry ==
    /\ ValgrindIdle /\ xmlFile = None /\ LoadIdle /\ LostIdle /\ TaskIdle
    /\ GenerateIdle /\ GraderIdle /\ SubmissionIdle
    /\ entry \in {"single", "run"}
    /\ context = None
    /\ problem = 1
    /\ graded = <<>>
    /\ reports = AssignmentReport
    /\ written = None
    /\ IF entry = "single"
       THEN /\ epc = "start"
            /\ dicts \in [{"args"} -> SingleArgs]
            /\ problems = <<>>
       ELSE /\ epc = "loop"
            /\ dicts \in [{"options"} -> RunOptions]
            /\ problems \in Assignments
NextEntry ==
    \/ SingleContext /\ UNCHANGED <<valgrindVars, loadVars, lostVars, taskVars, graderVars, generateVars>>
    \/ SingleRun /\ UNCHANGED <<valgrindVars, loadVars, lostVars, taskVars, graderVars, generateVars>>
    \/ SingleWrite /\ UNCHANGED <<valgrindVars, loadVars, lostVars, taskVars, graderVars, generateVars>>
    \/ RunProblem /\ UNCHANGED <<valgrindVars, loadVars, lostVars, taskVars, graderVars, generateVars>>
    \/ RunReturn /\ UNCHANGED <<valgrindVars, loadVars, lostVars, taskVars, graderVars, generateVars>>
SpecEntry == InitEntry /\ [][NextEntry]_vars

\* one call of generate_problem_interactive on every disk of Disks
InitGenerate ==
    /\ ValgrindIdle /\ xmlFile = None /\ LoadIdle /\ LostIdle /\ TaskIdle
    /\ GraderIdle /\ SubmissionIdle /\ EntryIdle
    /\ gnpc = "problem"
    /\ strict \in BOOLEAN
    /\ disk \in Disks
    /\ before = disk
    /\ problem_json = None
    /\ assignment_json = None
    /\ weight = None
NextGenerate ==
    \/ GenProblem /\ UNCHANGED <<valgrindVars, loadVars, lostVars, taskVars, graderVars, entryVars>>
    \/ GenCancelProblem /\ UNCHANGED <<valgrindVars, loadVars, lostVars, taskVars, graderVars, entryVars>>
    \/ GenLoad /\ UNCHANGED <<valgrindVars, loadVars, lostVars, taskVars, graderVars, entryVars>>
    \/ GenWeight /\ UNCHANGED <<valgrindVars, loadVars, lostVars, taskVars, graderVars, entryVars>>
    \/ GenCancelWeight /\ UNCHANGED <<valgrindVars, loadVars, lostVars, taskVars, graderVars, entryVars>>
    \/ GenWrite /\ UNCHANGED <<valgrindVars, loadVars, lostVars, taskVars, graderVars, entryVars>>
SpecGenerate == InitGenerate /\ [][NextGenerate]_vars

-----------------------------------------------------------------------------
(* Properties of the memory-analysis adapter *)

\* the error list of the report memory_lost was applied to
ReportErrors == report.errors[1]

\* the entries of that list whose kind is one of the three leak categories
LeakEntries ==
    {i \in 1..Len(ReportErrors) :
        ReportErrors[i].kind \in {<<"Leak_DefinitelyLost">>, <<"Leak_IndirectlyLost">>,
                                  <<"Leak_PossiblyLost">>}}

\* entry i carries field f with an integer text
Carries(i, f) ==
    /\ ReportErrors[i].what # None
    /\ f \in DOMAIN ReportErrors[i].what[1].fields
    /\ int(ReportErrors[i].what[1].fields[f], 10).exc = ""

Amount(i, f) == int(ReportErrors[i].what[1].fields[f], 10).val[1]

\* C1: for a report with a non-null error list whose leak-kind entries carry
\* leakedbytes and leakedblocks, memory_lost() returns (sum of leakedbytes,
\* sum of leakedblocks) over exactly the entries of the three leak kinds;
\* entries of any other kind contribute nothing.
C1_MemoryLostSumsLeakEntries ==
    (/\ lost # None
     /\ report.errors # None
     /\ \A i \in LeakEntries : Carries(i, "leakedbytes") /\ Carries(i, "leakedblocks"))
    => lost[1] = Return(<<SumOver([i \in LeakEntries |-> Amount(i, "leakedbytes")],
                                  LeakEntries),
                          SumOver([i \in LeakEntries |-> Amount(i, "leakedblocks")],
                                  LeakEntries)>>)

\* the example of the specification: one Leak_DefinitelyLost entry of 128
\* bytes in 2 blocks, one InvalidRead entry carrying amounts of its own
C1_Witness ==
    /\ lost = Some(Return(<<128, 2>>))
    /\ report.errors # None
    /\ Len(ReportErrors) = 2
    /\ ReportErrors[1].kind = <<"Leak_DefinitelyLost">>
    /\ ReportErrors[1].what = Some(WhatLoop(XwhatTagged.children, <<>>, EmptyDict))
    /\ ReportErrors[2].kind = <<"InvalidRead">>
    /\ ReportErrors[2].what = Some(WhatLoop(XwhatText.children, <<>>, EmptyDict))

\* C2: when the report file does not exist after the analysed process has
\* finished, run() returns a ValgrindReport holding the captured Runtime and
\* a null error list and does not raise, whatever the Runtime outcome.
C2_AbsentFileGivesNullErrors ==
    (vpc \in {"returned", "raised"} /\ ~foundFile)
    => /\ vpc = "returned"
       /\ outcome = Some(Return([runtime |-> runtime[1], errors |-> None]))

\* run() returned after a timed-out execution that left no report file
C2_Witness ==
    /\ vpc = "returned"
    /\ ~foundFile
    /\ runtime[1].timeout
    /\ outcome[1].val[1].errors = None

\* C3: whenever run() finds the report file, the file no longer exists once
\* that invocation has ended, on every path out of run(), a failure while
\* parsing the file or loading an error entry included.
C3_ReportFileNeverRetained ==
    (vpc \in {"returned", "raised"} /\ foundFile) => xmlFile = None

\* the children of e with the given tag, and those with any tag but "tag"
ChildrenTagged(e, tag) == {i \in 1..Len(e.children) : e.children[i].tag = tag}
FieldChildren(e) == {i \in 1..Len(e.children) : e.children[i].tag # "tag"}

\* C4: the explanation of a parsed error entry follows the explanation
\* element the entry contains: with a <what> element, the element's text and
\* no fields; with an <xwhat> element, the text of its <tag> child and a
\* field for every other child, mapping the child's tag to its text; with
\* neither, a null explanation.
C4_ExplanationFollowsElement ==
    (loaded # None /\ loaded[1].exc = "")
    => LET w == Find(element, "what")
           x == Find(element, "xwhat")
           got == loaded[1].val[1].what
       IN  /\ (w # None /\ x = None)
                => got = Some([text |-> w[1].text, fields |-> EmptyDict])
           /\ (w = None /\ x # None)
                => /\ got # None
                   /\ \A i \in ChildrenTagged(x[1], "tag") :
                        Cardinality(ChildrenTagged(x[1], "tag")) = 1
                            => got[1].text = x[1].children[i].text
                   /\ DOMAIN got[1].fields =
                        {x[1].children[i].tag : i \in FieldChildren(x[1])}
                   /\ \A i \in FieldChildren(x[1]) :
                        Cardinality(ChildrenTagged(x[1], x[1].children[i].tag)) = 1
                            => got[1].fields[x[1].children[i].tag] = x[1].children[i].text
           /\ (w = None /\ x = None) => got = None

-----------------------------------------------------------------------------
(* Properties of the test tasks *)

\* C8: a process timeout is surfaced as a failing Result: every test task
\* of tests.py whose Runtime has timeout = true returns a failing Result,
\* whatever the output the Runtime carries.
C8_TimeoutGivesFailingResult ==
    (result # None /\ executed.timeout) => ~result[1].passing

\* the non-empty lines of a text: the maximal runs of tokens other than "\n",
\* each named by the index of its first token
LineStarts(s) == {i \in 1..Len(s) : s[i] # "\n" /\ (i = 1 \/ s[i - 1] = "\n")}
LineFrom(s, i) ==
    SubSeq(s, i, CHOOSE j \in i..Len(s) :
                    /\ \A k \in i..j : s[k] # "\n"
                    /\ (j = Len(s) \/ s[j + 1] = "\n"))

\* the depth of the lines under the return-code line in the two tasks
NoteDepth == IF task = "test_fault" THEN 4 ELSE 2

\* C9: in test_fault and test_timeout a Runtime that did not time out and has
\* exit code -11 gives a failing Result whose log is the return-code line,
\* then every non-empty stderr line in order, then a "segmentation fault"
\* note; any other non-zero exit code gives a failing Result whose log is the
\* return-code line and the non-empty stderr lines, with no note appended.
C9_SegmentationFaultNote ==
    (/\ result # None
     /\ task \in {"test_fault", "test_timeout"}
     /\ ~executed.timeout
     /\ executed.code # {0})
    => LET log == result[1].log
           starts == LineStarts(executed.stderr)
           n == Cardinality(starts)
           note == Line(NoteDepth, <<<<"segmentation fault">>>>, None)
       IN  /\ ~result[1].passing
           /\ Len(log) = 1 + n + (IF executed.code = {0 - 11} THEN 1 ELSE 0)
           /\ log[1].args = <<<<"received return code">>>>
           /\ log[1].code = Some(executed.code)
           /\ \A i \in starts :
                log[1 + Cardinality({j \in starts : j <= i})]
                    = Line(NoteDepth, <<LineFrom(executed.stderr, i)>>, None)
           /\ executed.code = {0 - 11} => log[Len(log)] = note

\* test_fault on a segmentation fault whose stderr holds one line of text
\* followed by an empty line
C9_Witness ==
    /\ result # None
    /\ task = "test_fault"
    /\ executed.code = {0 - 11}
    /\ executed.stderr = <<"err", "\n", "\n">>
    /\ Len(result[1].log) = 3
    /\ result[1].log[3] = Line(4, <<<<"segmentation fault">>>>, None)

-----------------------------------------------------------------------------
(* Properties of the Grader runs *)

\* the build task "program" fails on this submission: the build directory
\* does not exist (an uncaught error) or g++ does not exit with status 0
BuildFails == buildDir = None \/ CompileRuntime(files, gxx).code # {0}

\* C5: the Result sequence a run returns has exactly one entry per
\* registered test task, whether or not the build succeeded; when the build
\* task "program" fails, the run still returns and every test task that
\* declares the Executable is in the sequence with status skipped.
C5_OneEntryPerTestTask ==
    \A m \in MODES :
        finals[m] # None
        => /\ Len(finals[m][1]) = Len(TestTasks)
           /\ \A i \in 1..Len(TestTasks) :
                Cardinality({k \in 1..Len(finals[m][1]) :
                                finals[m][1][k].name = TestTasks[i]}) = 1
           /\ BuildFails
                => \A k \in 1..Len(finals[m][1]) : finals[m][1][k].status = "skipped"

\* a run that returned five skipped entries after g++ exited with status 1
C5_Witness ==
    /\ finals["linear"] # None
    /\ buildDir # None
    /\ CompileRuntime(files, gxx).code = {1}
    /\ Len(finals["linear"][1]) = 5
    /\ \A k \in 1..5 : finals["linear"][1][k].status = "skipped"

\* C6: the parallel-mode run and the linear-mode run of the same problem
\* return the same Result sequence, in content and in order, and that order
\* is the registration order of the test tasks, whatever the order in which
\* the concurrent test tasks complete.
C6_ParallelEqualsLinear ==
    /\ (finals["parallel"] # None /\ finals["linear"] # None)
            => finals["parallel"] = finals["linear"]
    /\ \A m \in MODES :
            finals[m] # None
            => \A k \in 1..Len(finals[m][1]) : finals[m][1][k].name = TestTasks[k]

\* both runs returned; the parallel one completed test_timeout first and
\* test_pass last, and its tasks did run
C6_Witness ==
    /\ finals["parallel"] # None
    /\ finals["linear"] # None
    /\ mode = "parallel"
    /\ Len(completed) = 5
    /\ completed[1][1] = 5
    /\ completed[5][1] = 1
    /\ finals["parallel"][1][1].status = "passed"
    /\ finals["parallel"][1][5].status = "failed"

-----------------------------------------------------------------------------
(* Properties of the entry points *)

\* the automated problems of the assignment, by index
Automated == {i \in 1..Len(problems) : problems[i].automated}

\* the Result sequence the grader run of problem i returned
GradedFor(i) == {graded[k][2] : k \in {x \in 1..Len(graded) : graded[x][1] = i}}

C10_ContextOptionsNeverChange ==
    [][context # None => dicts'[context[1].options] = dicts[context[1].options]]_vars

-----------------------------------------------------------------------------
(* Properties of successive memory-analysis invocations *)

\* the error entries run() loads from the children of a report's root
RECURSIVE EntriesOf(_)
EntriesOf(cs) ==
    IF cs = <<>>
    THEN <<>>
    ELSE (IF Head(cs).tag = "error"
          THEN <<ValgrindError_load(Head(cs)).val[1]>>
          ELSE <<>>) \o EntriesOf(Tail(cs))

\* C11: over successive invocations of run() on the fixed report path, each
\* invocation's result reflects only its own tool execution: an invocation
\* whose tool wrote no report returns a null error list, an invocation that
\* returns after its tool wrote a report returns the entries of that report,
\* and the file an invocation parses is the one its own tool wrote.
C11_ResultReflectsOwnExecution ==
    /\ (vpc \in {"returned", "raised"} /\ wrote = None)
            => outcome = Some(Return(run_absent(runtime[1])))
    /\ (vpc = "returned" /\ wrote # None)
            => outcome[1].val[1].errors = Some(EntriesOf(wrote[1].root))
    /\ (vpc \in {"loop", "returned", "raised"} /\ foundFile) => wrote # None

\* entry i has an explanation with field f
HasField(i, f) ==
    /\ ReportErrors[i].what # None
    /\ f \in DOMAIN ReportErrors[i].what[1].fields

\* the amount of field f of entry i, a missing amount counted as zero
AmountOrZero(i, f) == IF HasField(i, f) THEN Amount(i, f) ELSE 0

\* C12: for every report that run() returns, memory_lost() returns a pair
\* of non-negative integers and does not raise: a null error list gives
\* (0, 0), and a leak-kind entry with a null explanation, or with an
\* explanation lacking leakedbytes or leakedblocks, counts as zero for the
\* missing amount.
C12_MemoryLostNeverRaises ==
    lost # None
    => /\ lost[1].exc = ""
       /\ lost[1].val[1][1] >= 0
       /\ lost[1].val[1][2] >= 0
       /\ report.errors = None => lost[1] = Return(<<0, 0>>)
       /\ (/\ report.errors # None
           /\ \A i \in LeakEntries : \A f \in {"leakedbytes", "leakedblocks"} :
                HasField(i, f) => Carries(i, f))
          => lost[1] = Return(<<SumOver([i \in LeakEntries |->
                                            AmountOrZero(i, "leakedbytes")], LeakEntries),
                                SumOver([i \in LeakEntries |->
                                            AmountOrZero(i, "leakedblocks")], LeakEntries)>>)

-----------------------------------------------------------------------------
(* Properties of the build task *)

\* C13: every build invocation deletes and recreates the build directory,
\* whatever its prior state (absent, empty, or holding earlier artifacts):
\* when the compiler is about to start the directory exists and is empty,
\* and once build_program has ended the directory exists and build_program
\* has returned the Executable when g++ exited with code 0 and has raised
\* its exception otherwise.
C13_BuildRecreatesDirectory ==
    /\ gpc = "compile" => buildDir = Some({})
    /\ gpc = "test"
        => /\ buildDir # None
           /\ built = Some(IF CompileRuntime(files, gxx).code = {0}
                           THEN Return("build/program")
                           ELSE Raise("Exception"))

-----------------------------------------------------------------------------
(* Properties of the interactive generation of a problem *)

\* C14: in generate_problem_interactive, however often the weight prompt is
\* repeated after the assignment was rejected by its schema, the in-memory
\* problem list holds at most one entry for the new problem; the assignment
\* file written at the end holds the problems it had before plus exactly one
\* entry for the new problem, carrying the last weight entered; and a cancel
\* at a prompt leaves every file and directory as it was.
C14_OneEntryForNewProblem ==
    /\ assignment_json # None
        => Cardinality(NewEntries(assignment_json[1])) <= 1
    /\ gnpc = "done"
        => disk.assignment =
            Some([before.assignment[1] EXCEPT
                    !.problems = Append(@, ProblemEntry(NewPath, float(weight[1]).val[1]))])
    /\ gnpc = "cancelled" => disk = before

====
